---- MODULE Spec2Model ----
(***************************************************************************)
(* A model of D3Funnel (src/src/d3-funnel/d3-funnel.js): the instance      *)
(* fields, the container's SVG elements, the transitions in flight, and    *)
(* the operations draw(), destroy() and the transition 'end' callback.     *)
(*                                                                         *)
(* Numbers are exact rationals with a NaN value; text that the code        *)
(* inspects (colors, style values) is a sequence of characters.            *)
(* dynamicArea is false in every input, so the area-based branch of        *)
(* _makePaths (lines 233-275, which needs Math.sqrt) is not modelled.      *)
(***************************************************************************)
EXTENDS Integers, Sequences, FiniteSets, TLC

VARIABLES
    defaults,     \* this.defaults (its label object is shared, see _initialize)
    inst,         \* the other fields of the instance: data, width, ..., svg, blockPaths
    container,    \* ids of the svg elements attached to the container element
    svgs,         \* the svg elements still referenced: id -> [defs, oval, groups]
    pending,      \* transitions in flight
    nextId,       \* number of svg elements created so far
    events,       \* _drawBlock calls and shape events in this.svg since the last successful draw()
    lastCall      \* the most recent draw() or destroy(): what it was given and found

vars == <<defaults, inst, container, svgs, pending, nextId, events, lastCall>>

-----------------------------------------------------------------------------
(* Bounds of the model *)

MaxRows == 2
MaxDraws == 2
MaxGeomRows == 4
MaxColorRows == 11

-----------------------------------------------------------------------------
(* JavaScript numbers: exact rationals, or NaN *)

NaN == [nan |-> TRUE, num |-> 0, den |-> 1]

Abs(i) == IF i < 0 THEN -i ELSE i

RECURSIVE GCD(_, _)
GCD(a, b) == IF b = 0 THEN a ELSE GCD(b, a % b)

\* n/d in lowest terms, d # 0
Rat(n, d) ==
    LET g == GCD(Abs(n), Abs(d))
        s == IF d < 0 THEN -1 ELSE 1
    IN  [nan |-> FALSE, num |-> s * (n \div g), den |-> s * (d \div g)]

Num(i) == [nan |-> FALSE, num |-> i, den |-> 1]

Add(a, b) == IF a.nan \/ b.nan THEN NaN
             ELSE Rat(a.num * b.den + b.num * a.den, a.den * b.den)

Sub(a, b) == IF a.nan \/ b.nan THEN NaN
             ELSE Rat(a.num * b.den - b.num * a.den, a.den * b.den)

Mul(a, b) == IF a.nan \/ b.nan THEN NaN
             ELSE Rat(a.num * b.num, a.den * b.den)

\* The divisor is never zero in this model: data.length >= 1 and
\* bottomPinch < data.length in every input.
Div(a, b) == IF a.nan \/ b.nan THEN NaN
             ELSE Rat(a.num * b.den, a.den * b.num)

\* x <= 0 as JavaScript evaluates it: false for NaN
LeqZero(a) == ~a.nan /\ a.num <= 0

\* x is a number above zero
GtZero(a) == ~a.nan /\ a.num > 0

-----------------------------------------------------------------------------
(* Text the code inspects *)

Digits == <<"0", "1", "2", "3", "4", "5", "6", "7", "8", "9">>
DigitChars == {Digits[i] : i \in 1..10}
DigitVal(c) == (CHOOSE i \in 1..10 : Digits[i] = c) - 1

RECURSIVE ParseDigits(_, _, _, _)
ParseDigits(s, i, acc, seen) ==
    IF i <= Len(s) /\ s[i] \in DigitChars
    THEN ParseDigits(s, i + 1, acc * 10 + DigitVal(s[i]), TRUE)
    ELSE IF seen THEN Num(acc) ELSE NaN

\* parseInt(s, 10): an optional sign, then the longest prefix of digits;
\* NaN when there is no digit
ParseInt(s) ==
    IF Len(s) > 0 /\ s[1] = "-"
    THEN LET r == ParseDigits(s, 2, 0, FALSE)
         IN  IF r.nan THEN NaN ELSE Num(-r.num)
    ELSE IF Len(s) > 0 /\ s[1] = "+" THEN ParseDigits(s, 2, 0, FALSE)
    ELSE ParseDigits(s, 1, 0, FALSE)

HexChars == DigitChars \cup {"a", "b", "c", "d", "e", "f", "A", "B", "C", "D", "E", "F"}

\* /^#([0-9a-f]{3}|[0-9a-f]{6})$/i
hexExpression(c) ==
    /\ Len(c) \in {4, 7}
    /\ c[1] = "#"
    /\ \A i \in 2..Len(c) : c[i] \in HexChars

\* the range of d3.scale.category10()
category10 == <<
    <<"#", "1", "f", "7", "7", "b", "4">>,
    <<"#", "f", "f", "7", "f", "0", "e">>,
    <<"#", "2", "c", "a", "0", "2", "c">>,
    <<"#", "d", "6", "2", "7", "2", "8">>,
    <<"#", "9", "4", "6", "7", "b", "d">>,
    <<"#", "8", "c", "5", "6", "4", "b">>,
    <<"#", "e", "3", "7", "7", "c", "2">>,
    <<"#", "7", "f", "7", "f", "7", "f">>,
    <<"#", "b", "c", "b", "d", "2", "2">>,
    <<"#", "1", "7", "b", "e", "c", "f">> >>

IndexOf(seq, x) == IF \E k \in 1..Len(seq) : seq[k] = x
                   THEN CHOOSE k \in 1..Len(seq) : seq[k] = x
                   ELSE 0

\* colorScale(x) of an ordinal scale with an implicit domain: a value not
\* seen before is appended to the domain; the result is
\* range[(index - 1) % range.length], index the value's place in the domain
colorScale(domain, x) ==
    LET dom == IF IndexOf(domain, x) = 0 THEN Append(domain, x) ELSE domain
        index == IndexOf(dom, x)
    IN  [domain |-> dom, color |-> category10[((index - 1) % Len(category10)) + 1]]

-----------------------------------------------------------------------------
(* Rows. A row is [arr |-> is it an array, f |-> its fields]; the fields   *)
(* are label, value, color (characters) and label color. The data argument *)
(* is [arr |-> is it an array, rows |-> its elements].                     *)

isArray(v) == v.arr

HasColorField(row) == Len(row.f) >= 3

\* lines 152-159: rows i+1.. of the list, the scale's domain so far
RECURSIVE ResolveColors(_, _, _)
ResolveColors(rows, i, domain) ==
    IF i >= Len(rows) THEN rows
    ELSE LET row == rows[i + 1]
         IN  IF ~HasColorField(row) \/ ~hexExpression(row.f[3])
             THEN LET r == colorScale(domain, i)
                      f2 == IF Len(row.f) >= 3
                            THEN [row.f EXCEPT ![3] = r.color]
                            ELSE Append(row.f, r.color)
                  IN  ResolveColors([rows EXCEPT ![i + 1].f = f2], i + 1, r.domain)
             ELSE ResolveColors(rows, i + 1, domain)

\* line 103, negated
ValidData(data) ==
    /\ isArray(data)
    /\ Len(data.rows) # 0
    /\ isArray(data.rows[1])
    /\ Len(data.rows[1].f) >= 2

-----------------------------------------------------------------------------
(* _initialize *)

AnimOff == [on |-> FALSE, ms |-> 0]
AnimOn(ms) == [on |-> TRUE, ms |-> ms]

\* lines 20-37
InitialDefaults ==
    [ width |-> Num(350), height |-> Num(400), bottomWidth |-> Rat(1, 3),
      bottomPinch |-> 0, isCurved |-> FALSE, curveHeight |-> Num(20),
      fillType |-> "solid", isInverted |-> FALSE, hoverEffects |-> FALSE,
      dynamicArea |-> FALSE, minHeight |-> FALSE, animation |-> AnimOff,
      label |-> [fontSize |-> "14px", fill |-> "#fff"] ]

\* labelOption.match(/fontSize|fill/) on the label keys of this model: the
\* expression is not anchored, so a key that contains one of the words matches
validLabelOptions(k) == k \in {"fontSize", "fill", "fillOpacity"}

\* lines 117-127: a shallow copy of the defaults, the container's measure,
\* then every option but label
MergeSettings(d, options, styleW, styleH) ==
    LET base == [d EXCEPT !.width = ParseInt(styleW), !.height = ParseInt(styleH)]
        keys == (DOMAIN options) \ {"label"}
    IN  [k \in (DOMAIN base) \cup keys |-> IF k \in keys THEN options[k] ELSE base[k]]

\* lines 130-138: settings.label is the object defaults.label (extend copies
\* the reference), so the assignments write into the defaults' label
MergeLabel(label, options) ==
    IF "label" \in DOMAIN options
    THEN LET keys == {k \in DOMAIN options.label : validLabelOptions(k)}
         IN  [k \in (DOMAIN label) \cup keys |->
                 IF k \in keys THEN options.label[k] ELSE label[k]]
    ELSE label

\* lines 143-148
Fallback(v, dflt) == IF LeqZero(v) THEN dflt ELSE v

\* lines 180-182
dxOf(bottomLeftX, n, bottomPinch) ==
    IF bottomPinch > 0
    THEN Div(bottomLeftX, Num(n - bottomPinch))
    ELSE Div(bottomLeftX, Num(n))

\* dy with the curve's pixels reserved whether or not the chart is curved
dyReserved(height, n, isCurved, curveHeight) == Div(Sub(height, curveHeight), Num(n))

\* lines 185-187
dyOf(height, n, isCurved, curveHeight) ==
    IF isCurved THEN Div(Sub(height, curveHeight), Num(n)) ELSE Div(height, Num(n))

\* lines 110-190, for valid data. The result is the instance's fields; svg
\* and blockPaths are set by draw().
_initialize(d, data, options, styleW, styleH) ==
    LET settings == MergeSettings(d, options, styleW, styleH)
        width == Fallback(settings.width, d.width)
        height == Fallback(settings.height, d.height)
        bottomWidth == Mul(width, settings.bottomWidth)
        bottomLeftX == Div(Sub(width, bottomWidth), Num(2))
        n == Len(data.rows)
    IN  [ data |-> ResolveColors(data.rows, 0, <<>>),
          width |-> width,
          height |-> height,
          bottomWidth |-> bottomWidth,
          bottomPinch |-> settings.bottomPinch,
          isCurved |-> settings.isCurved,
          curveHeight |-> settings.curveHeight,
          fillType |-> settings.fillType,
          isInverted |-> settings.isInverted,
          hoverEffects |-> settings.hoverEffects,
          dynamicArea |-> settings.dynamicArea,
          minHeight |-> settings.minHeight,
          animation |-> settings.animation,
          bottomLeftX |-> bottomLeftX,
          dx |-> dxOf(bottomLeftX, n, settings.bottomPinch),
          dy |-> dyOf(height, n, settings.isCurved, settings.curveHeight),
          onItemClick |-> "onItemClick" \in DOMAIN settings,
          svg |-> 0,
          blockPaths |-> <<>> ]

-----------------------------------------------------------------------------
(* _makePaths, static area *)

Pt(x, y, c) == [x |-> x, y |-> y, c |-> c]

\* the velocity never stopped
PinchDxNever(I, i, dx) == dx

\* lines 277-297: the velocity for block i, given the velocity so far
PinchDx(I, i, dx) ==
    IF I.bottomPinch > 0
    THEN IF ~I.isInverted
         THEN IF i >= Len(I.data) - I.bottomPinch THEN Num(0) ELSE dx
         ELSE LET dx1 == IF ~I.dynamicArea THEN I.dx ELSE dx
              IN  IF i < I.bottomPinch THEN Num(0) ELSE dx1
    ELSE dx

\* lines 310-340
BlockPath(I, prevLeftX, prevRightX, prevHeight, nextLeftX, nextRightX, nextHeight) ==
    LET middle == Div(I.width, Num(2))
    IN  IF I.isCurved
        THEN << Pt(prevLeftX, prevHeight, "M"),
                Pt(middle, Add(prevHeight, Sub(I.curveHeight, Num(10))), "Q"),
                Pt(prevRightX, prevHeight, ""),
                Pt(nextRightX, nextHeight, "L"),
                Pt(nextRightX, nextHeight, "M"),
                Pt(middle, Add(nextHeight, I.curveHeight), "Q"),
                Pt(nextLeftX, nextHeight, ""),
                Pt(prevLeftX, prevHeight, "L") >>
        ELSE << Pt(prevLeftX, prevHeight, "M"),
                Pt(prevRightX, prevHeight, "L"),
                Pt(nextRightX, nextHeight, "L"),
                Pt(nextLeftX, nextHeight, "L"),
                Pt(prevLeftX, prevHeight, "L") >>

\* lines 254-346: iterations i.. of the loop
RECURSIVE MakePathsFrom(_, _, _, _, _, _, _)
MakePathsFrom(I, i, dx, prevLeftX, prevRightX, prevHeight, paths) ==
    IF i >= Len(I.data) THEN paths
    ELSE LET dx1 == PinchDx(I, i, dx)
             nextLeftX == IF I.isInverted THEN Sub(prevLeftX, dx1) ELSE Add(prevLeftX, dx1)
             nextRightX == IF I.isInverted THEN Add(prevRightX, dx1) ELSE Sub(prevRightX, dx1)
             nextHeight == Add(prevHeight, I.dy)
             path == BlockPath(I, prevLeftX, prevRightX, prevHeight,
                               nextLeftX, nextRightX, nextHeight)
         IN  MakePathsFrom(I, i + 1, dx1, nextLeftX, nextRightX, nextHeight,
                           Append(paths, path))

\* lines 199-349
_makePaths(I) ==
    MakePathsFrom(I, 0, I.dx,
                  IF I.isInverted THEN I.bottomLeftX ELSE Num(0),
                  IF I.isInverted THEN Sub(I.width, I.bottomLeftX) ELSE I.width,
                  IF I.isCurved THEN Num(10) ELSE Num(0),
                  <<>>)


-----------------------------------------------------------------------------
(* The block sequencer. W is the part of the world _drawBlock changes:     *)
(* [svgs, pending, events]. I is the instance, L its label object.         *)

NoFill == [url |-> FALSE, hex |-> <<>>, id |-> 0]

\* lines 566-573
_getColor(I, index) ==
    IF I.fillType = "solid"
    THEN [url |-> FALSE, hex |-> I.data[index + 1].f[3], id |-> 0]
    ELSE [url |-> TRUE, hex |-> <<>>, id |-> index]

\* lines 580-592: the points of the block, in order
_getPathDefinition(I, index) == I.blockPaths[index + 1]

\* lines 504-524
BeforePath(I, index) ==
    LET paths == I.blockPaths[index + 1]
    IN  IF ~I.isCurved
        THEN << Pt(paths[1].x, paths[1].y, "M"), Pt(paths[2].x, paths[2].y, "L"),
                Pt(paths[2].x, paths[2].y, "L"), Pt(paths[1].x, paths[1].y, "L") >>
        ELSE << Pt(paths[1].x, paths[1].y, "M"), Pt(paths[2].x, paths[2].y, "Q"),
                Pt(paths[3].x, paths[3].y, ""), Pt(paths[3].x, paths[3].y, "L"),
                Pt(paths[3].x, paths[3].y, "M"), Pt(paths[2].x, paths[2].y, "Q"),
                Pt(paths[1].x, paths[1].y, "") >>

\* lines 526-532
BeforeFill(I, index) ==
    IF I.fillType = "solid"
    THEN IF index > 0 THEN _getColor(I, index - 1) ELSE _getColor(I, index)
    ELSE _getColor(I, index)

\* lines 464-472
Handlers(I) ==
    (IF I.hoverEffects THEN {"mouseover", "mouseout"} ELSE {})
        \cup (IF I.onItemClick THEN {"click"} ELSE {})

\* line 626
TextFill(I, L, index) ==
    LET f == I.data[index + 1].f
    IN  IF Len(f) >= 4 /\ f[4] # "" THEN f[4] ELSE L.fill

\* a group as lines 440 and 485 leave it: one path, no attribute, no label
NewGroup(index) ==
    [ row |-> index, d |-> <<>>, fill |-> NoFill, final |-> FALSE,
      labels |-> 0, textFill |-> "", fontSize |-> "", handlers |-> {} ]

\* lines 463-474, on the group at pos of this.svg
_addBlockLabel(I, L, W, pos, index) ==
    [W EXCEPT !.svgs[I.svg].groups[pos] =
        [@ EXCEPT !.labels = @ + 1,
                  !.textFill = TextFill(I, L, index),
                  !.fontSize = L.fontSize,
                  !.handlers = Handlers(I)]]

Ev(e, row) == [e |-> e, row |-> row]

\* line 440 and 485: this.svg.append('g'), group.append('path')
AppendGroup(I, W, g) ==
    [W EXCEPT !.svgs[I.svg].groups = Append(@, g),
              !.events = Append(@, Ev("create", g.row))]

\* whether the next block is drawn from inside this call (line 460) rather
\* than from the transition's 'end' (lines 449-456)
DrawNextNow(I) == ~I.animation.on

\* lines 433-475. An index beyond data.length passes the test of line 435:
\* the group and its path are appended, and the read of
\* this.blockPaths[index] (animated) or this.data[index] (not animated)
\* throws a TypeError, which ends the call.
RECURSIVE _drawBlock(_, _, _, _)
_drawBlock(I, L, W, index) ==
    LET W0 == [W EXCEPT !.events = Append(@, Ev("call", index))]
        pos == Len(W0.svgs[I.svg].groups) + 1
    IN  IF index = Len(I.data) THEN W0
        ELSE IF index > Len(I.data) THEN AppendGroup(I, W0, NewGroup(index))
        ELSE IF ~DrawNextNow(I)
        THEN LET g == [NewGroup(index) EXCEPT !.d = BeforePath(I, index),
                                              !.fill = BeforeFill(I, index)]
                 W1 == AppendGroup(I, W0, g)
                 t == [ svg |-> I.svg, pos |-> pos, index |-> index,
                        fill |-> _getColor(I, index),
                        d |-> _getPathDefinition(I, index) ]
                 W2 == [W1 EXCEPT !.pending = @ \cup {t}]
             IN  _addBlockLabel(I, L, W2, pos, index)
        ELSE LET g == [NewGroup(index) EXCEPT !.d = _getPathDefinition(I, index),
                                              !.fill = _getColor(I, index),
                                              !.final = TRUE]
                 W1 == AppendGroup(I, W0, g)
                 W2 == [W1 EXCEPT !.events = Append(@, Ev("final", index))]
                 W3 == _drawBlock(I, L, W2, index + 1)
             IN  _addBlockLabel(I, L, W3, pos, index)

-----------------------------------------------------------------------------
(* State and operations *)

\* the svg elements something still refers to: the container, this.svg, a
\* transition in flight
Live(c, I, p, all) ==
    LET ids == (c \cup {I.svg} \cup {t.svg : t \in p}) \cap DOMAIN all
    IN  [s \in ids |-> all[s]]

NoData == [arr |-> FALSE, rows |-> <<>>]
NoOptions == [animation |-> AnimOff]

\* lastCall is a history variable: op is "none", "draw" or "destroy", ok is
\* whether the call returned (and did not throw), before is the container as
\* the call found it, inFlight the number of transitions in flight then; a
\* draw() that returned also keeps its arguments
NoCall == [ op |-> "none", ok |-> TRUE, before |-> {}, inFlight |-> 0, data |-> NoData,
            options |-> NoOptions, styleW |-> <<>>, styleH |-> <<>> ]

\* lines 15-38. The fields that _initialize and draw() set are undefined
\* until the first draw(): the numbers among them are NaN here, data and
\* blockPaths are empty and svg is 0, no svg element.
Init ==
    /\ defaults = InitialDefaults
    /\ inst = [_initialize(InitialDefaults,
                           [arr |-> TRUE, rows |-> << [arr |-> TRUE, f |-> <<"", 0>>] >>],
                           NoOptions, <<>>, <<>>) EXCEPT !.data = <<>>]
    /\ container = {}
    /\ svgs = [s \in {} |-> 0]
    /\ pending = {}
    /\ nextId = 0
    /\ events = <<>>
    /\ lastCall = NoCall

\* a removal that selects nothing among the container's children
RemoveGroupsOnly(c) == c

\* line 48: selectAll('svg').remove()
RemoveSvgs(c) == {}

\* lines 45-49
Destroy ==
    /\ container' = RemoveSvgs(container)
    /\ svgs' = Live(container', inst, pending, svgs)
    /\ lastCall' = [NoCall EXCEPT !.op = "destroy", !.before = container,
                                  !.inFlight = Cardinality(pending)]
    /\ UNCHANGED <<defaults, inst, pending, nextId, events>>

\* lines 63-91, with data and options the arguments and styleW, styleH the
\* container's style('width') and style('height')
Draw(data, options, styleW, styleH) ==
    /\ lastCall' = [ op |-> "draw", ok |-> ValidData(data), before |-> container,
                     inFlight |-> Cardinality(pending),
                     data |-> IF ValidData(data) THEN data ELSE NoData,
                     options |-> IF ValidData(data) THEN options ELSE NoOptions,
                     styleW |-> IF ValidData(data) THEN styleW ELSE <<>>,
                     styleH |-> IF ValidData(data) THEN styleH ELSE <<>> ]
    /\ IF ~ValidData(data)
       THEN \* line 66, then line 104 throws
            /\ container' = RemoveSvgs(container)
            /\ svgs' = Live(container', inst, pending, svgs)
            /\ UNCHANGED <<defaults, inst, pending, nextId, events>>
       ELSE /\ nextId < MaxDraws
            /\ LET sid == nextId + 1
                   L == MergeLabel(defaults.label, options)
                   I0 == [_initialize(defaults, data, options, styleW, styleH)
                             EXCEPT !.svg = sid]
                   I == [I0 EXCEPT !.blockPaths = _makePaths(I0)]
                   svg0 == [ defs |-> I.fillType = "gradient",
                             oval |-> I.isCurved,
                             groups |-> <<>> ]
                   all == [s \in (DOMAIN svgs) \cup {sid} |->
                              IF s = sid THEN svg0 ELSE svgs[s]]
                   W == _drawBlock(I, L, [svgs |-> all, pending |-> pending,
                                          events |-> <<>>], 0)
               IN  /\ defaults' = [defaults EXCEPT !.label = L]
                   /\ inst' = I
                   /\ container' = RemoveSvgs(container) \cup {sid}
                   /\ pending' = W.pending
                   /\ events' = W.events
                   /\ svgs' = Live(container', I, W.pending, W.svgs)
                   /\ nextId' = sid

\* the 'end' of transition t: the path has its target fill and d, and the
\* listener of lines 454-456 runs on the instance as it is now. Removing an
\* element (line 48) does not interrupt its transition: d3's timer runs it
\* to its end on the detached element.
TransitionEnd(t) ==
    /\ t \in pending
    /\ LET done == [svgs EXCEPT ![t.svg].groups[t.pos] =
                       [@ EXCEPT !.d = t.d, !.fill = t.fill, !.final = TRUE]]
           ev == IF t.svg = inst.svg
                 THEN Append(events, Ev("final", t.index)) ELSE events
           W == _drawBlock(inst, defaults.label,
                           [svgs |-> done, pending |-> pending \ {t}, events |-> ev],
                           t.index + 1)
       IN  /\ pending' = W.pending
           /\ events' = W.events
           /\ svgs' = Live(container, inst, W.pending, W.svgs)
    /\ UNCHANGED <<defaults, inst, container, nextId, lastCall>>

-----------------------------------------------------------------------------
(* Inputs *)

Px(digits) == digits \o <<"p", "x">>
Style350 == Px(<<"3", "5", "0">>)
Style400 == Px(<<"4", "0", "0">>)

PlainRow(i) == [arr |-> TRUE, f |-> <<"row", 10 * i>>]
PlainData(n) == [arr |-> TRUE, rows |-> [i \in 1..n |-> PlainRow(i)]]

Malformed ==
    { NoData,
      [arr |-> TRUE, rows |-> <<>>],
      [arr |-> TRUE, rows |-> << [arr |-> FALSE, f |-> <<>>] >>],
      [arr |-> TRUE, rows |-> << [arr |-> TRUE, f |-> <<"row">>] >>] }

\* draw(), destroy() and the transitions' ends, with and without animation
SeqData == {PlainData(n) : n \in 1..MaxRows} \cup Malformed
SeqOptions == {[animation |-> a] : a \in {AnimOff, AnimOn(500)}}

DrawSeq ==
    \E data \in SeqData, options \in SeqOptions :
        Draw(data, options, Style350, Style400)

EndSeq == \E t \in pending : TransitionEnd(t)

Next == DrawSeq \/ Destroy \/ EndSeq

Spec == Init /\ [][Next]_vars

\* successive draws with label options
LabelOptions ==
    { [animation |-> AnimOff],
      [animation |-> AnimOff, label |-> [fill |-> "#000"]],
      [animation |-> AnimOff, label |-> [fontSize |-> "20px"]],
      [animation |-> AnimOff, label |-> [fill |-> "#222", fontSize |-> "9px"]],
      [animation |-> AnimOff, label |-> [color |-> "red"]],
      [animation |-> AnimOn(500), label |-> [fillOpacity |-> "0.5"]] }

DrawLabel ==
    \E data \in {PlainData(n) : n \in 1..MaxRows}, options \in LabelOptions :
        Draw(data, options, Style350, Style400)

NextLabel == DrawLabel \/ Destroy \/ EndSeq

SpecLabel == Init /\ [][NextLabel]_vars

\* one draw() on a new instance, over the configuration and the geometry
Styles ==
    { Style350, Style400, Px(<<"0">>), Px(<<"-", "5">>),
      <<"a", "u", "t", "o">>, <<>>, Px(<<"1", "2", ".", "5">>) }

SizeOptions ==
    { [animation |-> AnimOff],
      [animation |-> AnimOff, width |-> Num(200)],
      [animation |-> AnimOff, height |-> Num(0)],
      [animation |-> AnimOff, width |-> Num(-5), height |-> Num(300)] }

In(data, options, styleW, styleH) ==
    [data |-> data, options |-> options, styleW |-> styleW, styleH |-> styleH]

SizeInputs ==
    { In(PlainData(n), options, styleW, styleH) :
      n \in 1..MaxRows, options \in SizeOptions, styleW \in Styles, styleH \in Styles }

GeomOptions(n) ==
    { [ animation |-> AnimOff, width |-> w, height |-> Num(300), bottomWidth |-> b,
        bottomPinch |-> p, isInverted |-> v, isCurved |-> c ] :
      w \in {Num(200), Num(100)}, b \in {Rat(1, 3), Rat(1, 2), Rat(3, 4)},
      p \in 0..(n - 1), v \in BOOLEAN, c \in BOOLEAN }

GeomInputs ==
    UNION { { In(PlainData(n), options, Style350, <<"a", "u", "t", "o">>) :
              options \in GeomOptions(n) } : n \in 1..MaxGeomRows }

Colors ==
    { <<"#", "1", "1", "1">>, <<"#", "A", "b", "C", "d", "E", "f">>,
      <<"r", "e", "d">>, <<"#", "1", "2", "3", "4", "5">>, <<"#", "g", "g", "g">>,
      <<"u", "n", "d", "e", "f", "i", "n", "e", "d">> }

ColorRows ==
    {PlainRow(1)}
        \cup {[arr |-> TRUE, f |-> <<"row", 10, c>>] : c \in Colors}
        \cup {[arr |-> TRUE, f |-> <<"row", 10, c, "#000">>] :
                c \in {<<"#", "1", "1", "1">>, <<"u", "n", "d", "e", "f", "i", "n", "e", "d">>}}

ColorData ==
    UNION {[arr : {TRUE}, rows : [1..n -> ColorRows]] : n \in 1..MaxRows}
        \cup {PlainData(MaxColorRows)}
        \cup {[arr |-> TRUE,
               rows |-> [i \in 1..MaxColorRows |->
                            IF i = 1 THEN [arr |-> TRUE, f |-> <<"row", 10, <<"#", "1", "1", "1">>>>]
                            ELSE PlainRow(i)]]}

ColorInputs ==
    { In(data, options, Style350, Style400) :
      data \in ColorData,
      options \in { [animation |-> AnimOff],
                    [animation |-> AnimOn(0)],
                    [animation |-> AnimOn(0), fillType |-> "gradient"],
                    [animation |-> AnimOff, hoverEffects |-> TRUE, onItemClick |-> TRUE] } }

DrawOnce ==
    /\ nextId = 0
    /\ \E in \in SizeInputs \cup GeomInputs \cup ColorInputs :
           Draw(in.data, in.options, in.styleW, in.styleH)

NextOnce == DrawOnce \/ EndSeq

SpecOnce == Init /\ [][NextOnce]_vars

-----------------------------------------------------------------------------
(* Properties *)

\* the most recent call of draw() or destroy() is a draw() that returned
Drawn == lastCall.op = "draw" /\ lastCall.ok

\* the block groups of this.svg
Groups == IF inst.svg \in DOMAIN svgs THEN svgs[inst.svg].groups ELSE <<>>

Calls(index) == Cardinality({p \in 1..Len(events) : events[p] = Ev("call", index)})

\* C1: a draw() that throws for malformed rows leaves the container as it
\* found it, whatever the container held
C1_FailedDrawKeepsContainer ==
    (lastCall.op = "draw" /\ ~lastCall.ok) => container = lastCall.before

\* C2: after a second (or later) draw() the container holds this draw's svg
\* only, and in it no group for a row the rows do not have and no two groups
\* for one row; once no transition is in flight, one group per row
C2_OnlyLatestChart ==
    (Drawn /\ nextId >= 2) =>
        /\ container = {inst.svg}
        /\ \A i \in 1..Len(Groups) : Groups[i].row < Len(inst.data)
        /\ \A i, j \in 1..Len(Groups) : i # j => Groups[i].row # Groups[j].row
        /\ pending = {} => Len(Groups) = Len(inst.data)

\* C3: within a draw pass the shape of row r+1 is created only after the
\* shape of row r has its true fill and path, and the rows that have a shape
\* are a prefix of the rows
C3_RowOrder ==
    /\ \A p \in 1..Len(events) :
           (events[p].e = "create" /\ events[p].row > 0) =>
               \E q \in 1..(p - 1) : events[q] = Ev("final", events[p].row - 1)
    /\ \A i \in 1..Len(Groups) : \A r \in 0..(Groups[i].row - 1) :
           \E j \in 1..Len(Groups) : Groups[j].row = r

\* C4: after destroy() the container holds no svg, and stays so while the
\* transitions that were in flight end and their listeners run; a further
\* destroy() finds and leaves it empty
C4_DestroyEmpties == lastCall.op = "destroy" => container = {}

\* a destroy() that removed a chart with transitions in flight, all of which
\* have ended since and have drawn into the removed svg
C4_Witness ==
    /\ lastCall.op = "destroy"
    /\ lastCall.before # {}
    /\ lastCall.inFlight > 0
    /\ pending = {}
    /\ Len(Groups) >= 2

\* the label a draw() is to use: the documented defaults, overridden by the
\* fontSize and fill of its own label option
ExpectedLabel(options) ==
    LET given == IF "label" \in DOMAIN options THEN options.label ELSE [fill |-> "#fff"]
        has(k) == "label" \in DOMAIN options /\ k \in DOMAIN options.label
    IN  [ fontSize |-> IF has("fontSize") THEN given.fontSize ELSE "14px",
          fill |-> IF has("fill") THEN given.fill ELSE "#fff" ]

\* C5: the labels of a draw() use the defaults overridden by that call's
\* own label option (a row's own label color apart), and draw() leaves
\* this.defaults as the constructor set it
C5_LabelFromDefaults ==
    Drawn =>
        /\ defaults = InitialDefaults
        /\ \A i \in 1..Len(Groups) :
               Groups[i].labels > 0 =>
                   /\ Groups[i].textFill =
                          TextFill(inst, ExpectedLabel(lastCall.options), Groups[i].row)
                   /\ Groups[i].fontSize = ExpectedLabel(lastCall.options).fontSize

\* whether row i (from 1) of the rows given to draw() came with a valid color
GivenColor(i) ==
    LET f == lastCall.data.rows[i].f IN Len(f) >= 3 /\ hexExpression(f[3])

\* C6: after _initialize every row has a valid hex color; a row given with
\* one keeps it, any other row has the palette's color for its own position
C6_ColorByPosition ==
    Drawn =>
        \A i \in 1..Len(inst.data) :
            /\ hexExpression(inst.data[i].f[3])
            /\ GivenColor(i) => inst.data[i].f[3] = lastCall.data.rows[i].f[3]
            /\ ~GivenColor(i) =>
                   inst.data[i].f[3] = category10[((i - 1) % Len(category10)) + 1]

\* C7: after _initialize the width and the height are strictly positive
C7_PositiveSize == Drawn => GtZero(inst.width) /\ GtZero(inst.height)

\* the bottomWidth ratio of the last draw(): the option, else the default
Ratio ==
    IF "bottomWidth" \in DOMAIN lastCall.options
    THEN lastCall.options.bottomWidth ELSE Rat(1, 3)

\* the corners of a block's path
TopLeft(path) == path[1]
TopRight(path) == IF inst.isCurved THEN path[3] ELSE path[2]
BottomRight(path) == IF inst.isCurved THEN path[4] ELSE path[3]
BottomLeft(path) == IF inst.isCurved THEN path[7] ELSE path[4]

\* C8: not inverted, not pinched, not curved: one path per row, the top edge
\* of block 0 runs from x = 0 to x = width at y = 0, and the bottom edge of
\* the last block is width * bottomWidth wide at y = height
C8_FullWidthToBottomWidth ==
    (Drawn /\ ~inst.isInverted /\ inst.bottomPinch = 0 /\ ~inst.isCurved) =>
        LET n == Len(inst.data)
            first == inst.blockPaths[1]
            last == inst.blockPaths[n]
        IN  /\ Len(inst.blockPaths) = n
            /\ TopLeft(first).x = Num(0) /\ TopLeft(first).y = Num(0)
            /\ TopRight(first).x = inst.width /\ TopRight(first).y = Num(0)
            /\ Sub(BottomRight(last).x, BottomLeft(last).x) = Mul(inst.width, Ratio)
            /\ BottomRight(last).y = inst.height
            /\ BottomLeft(last).y = inst.height

C8_Witness ==
    /\ Drawn /\ ~inst.isInverted /\ inst.bottomPinch = 0 /\ ~inst.isCurved
    /\ Len(inst.data) >= 3
    /\ inst.width = Num(200)
    /\ Ratio = Rat(1, 2)
    /\ BottomLeft(inst.blockPaths[Len(inst.data)]).x = Num(50)

\* C9: not inverted, pinch p with 0 < p < n: each of the last p blocks has
\* vertical sides; each of the first n - p blocks moves in by
\* bottomLeftX / (n - p) on either side, bottomLeftX = (width - width *
\* bottomWidth) / 2, so that the neck is width * bottomWidth wide
C9_PinchedNeck ==
    (Drawn /\ ~inst.isInverted /\ inst.bottomPinch > 0
           /\ inst.bottomPinch < Len(inst.data)) =>
        LET n == Len(inst.data)
            p == inst.bottomPinch
            step == Div(Div(Sub(inst.width, Mul(inst.width, Ratio)), Num(2)), Num(n - p))
            path(i) == inst.blockPaths[i]
        IN  /\ \A i \in (n - p + 1)..n :
                   /\ BottomLeft(path(i)).x = TopLeft(path(i)).x
                   /\ BottomRight(path(i)).x = TopRight(path(i)).x
            /\ \A i \in 1..(n - p) :
                   /\ Sub(BottomLeft(path(i)).x, TopLeft(path(i)).x) = step
                   /\ Sub(TopRight(path(i)).x, BottomRight(path(i)).x) = step
            /\ \A i \in (n - p)..n :
                   Sub(BottomRight(path(i)).x, BottomLeft(path(i)).x) = Mul(inst.width, Ratio)

C9_Witness ==
    /\ Drawn /\ ~inst.isInverted /\ inst.isCurved
    /\ Len(inst.data) = 4 /\ inst.bottomPinch = 2
    /\ inst.width = Num(200) /\ Ratio = Rat(1, 2)
    /\ BottomLeft(inst.blockPaths[2]).x = Num(50)
    /\ BottomLeft(inst.blockPaths[4]).x = Num(50)

\* C10: once no transition is in flight after a draw() of n rows that
\* returned, with no draw() or destroy() since, this.svg holds n groups, the
\* group of row i at place i with its shape final and one label; _drawBlock
\* was invoked once with each index 0..n-1, reached index n, and was invoked
\* with no index beyond n
C10_ChartComplete ==
    (Drawn /\ pending = {}) =>
        /\ Len(Groups) = Len(inst.data)
        /\ \A i \in 1..Len(Groups) :
               Groups[i].row = i - 1 /\ Groups[i].final /\ Groups[i].labels = 1
        /\ \A index \in 0..(Len(inst.data) - 1) : Calls(index) = 1
        /\ Calls(Len(inst.data)) >= 1
        /\ \A p \in 1..Len(events) :
               events[p].e = "call" => events[p].row <= Len(inst.data)

====
